---- MODULE Spec2Model ----
(***************************************************************************)
(* Blackjack card-counting trainer (src/src/App.jsx): the Hi-Lo count      *)
(* estimator, the hand evaluator, the baseline strategy table, the index   *)
(* plays, and the App component's state with its UI handlers.              *)
(***************************************************************************)
EXTENDS Integers, Sequences, FiniteSets, TLC

VARIABLES stage, players, decks, dealerUp, seen, myHand, pc, call, ret

vars == <<stage, players, decks, dealerUp, seen, myHand, pc, call, ret>>
appVars == <<stage, players, decks, dealerUp, seen, myHand>>
callVars == <<pc, call, ret>>

(***************************************************************************)
(* Bounds of the exploration.                                              *)
(***************************************************************************)
MaxEvalHand == 4
MaxHand == 3
MaxDevHand == 2
TCBelow == 1
MaxTC == 5
MaxSeen == 4
MaxMyHand == 3
MaxShoeSeen == 54
MaxShoeHand == 1
MaxRankHand == 2
PlayerInputs == {0, 7}
DeckInputs == {0, 1, 8, 9}
AppRanks == {"A", "6", "K"}
ShoeDecks == {0, 1, 2}
ShoeRanks == <<"5", "8">>

(***************************************************************************)
(* Rank / value utilities.                                                 *)
(***************************************************************************)
RANKS == <<"A", "2", "3", "4", "5", "6", "7", "8", "9", "10", "J", "Q", "K">>

RankSet == {RANKS[i] : i \in DOMAIN RANKS}

Actions == {"Stand", "Hit", "Double", "Split", "Surrender"}

hiLoValue(rank) ==
  IF rank \in {"2", "3", "4", "5", "6"} THEN 1
  ELSE IF rank \in {"7", "8", "9"} THEN 0
  ELSE -1

isTenValue(rank) == rank = "10" \/ rank = "J" \/ rank = "Q" \/ rank = "K"

\* A JavaScript number that is an integer or NaN; n is meaningful when nan is
\* false.
NaN == [nan |-> TRUE, n |-> 0]

Num(k) == [nan |-> FALSE, n |-> k]

\* The integer a number holds; no value when the number is NaN.
intOf(x) == CASE ~x.nan -> x.n

\* a + b, a > b, a <= b on numbers: NaN propagates through the sum and makes
\* every comparison false.
plus(a, b) == IF a.nan \/ b.nan THEN NaN ELSE Num(a.n + b.n)

greater(a, b) == ~a.nan /\ ~b.nan /\ a.n > b.n

atMost(a, b) == ~a.nan /\ ~b.nan /\ a.n <= b.n

\* Strings that are not ranks of the alphabet: letters and the empty string,
\* numerals outside 2..10, and numerals with a sign, a blank or a suffix.
ForeignRanks == {"X", "a", "", "0", "1", "11", "-3", " 7", "7h"}

RawRanks == RankSet \cup ForeignRanks

\* The characters of a string of RawRanks.
RankChars(rank) ==
  CASE rank = "" -> <<>>
    [] rank = "10" -> <<"1", "0">>
    [] rank = "11" -> <<"1", "1">>
    [] rank = "-3" -> <<"-", "3">>
    [] rank = " 7" -> <<" ", "7">>
    [] rank = "7h" -> <<"7", "h">>
    [] OTHER -> <<rank>>

\* parseInt(rank, 10): leading white space is skipped, a sign is read, then the
\* longest prefix of decimal digits is the value; NaN when there is no digit.
isDigit(c) == c \in {"0", "1", "2", "3", "4", "5", "6", "7", "8", "9"}

digitValue(c) ==
  CASE c = "0" -> 0 [] c = "1" -> 1 [] c = "2" -> 2 [] c = "3" -> 3 [] c = "4" -> 4
    [] c = "5" -> 5 [] c = "6" -> 6 [] c = "7" -> 7 [] c = "8" -> 8 [] c = "9" -> 9

RECURSIVE skipSpace(_)
skipSpace(chars) ==
  IF chars = <<>> THEN chars
  ELSE IF Head(chars) = " " THEN skipSpace(Tail(chars))
  ELSE chars

RECURSIVE digitPrefix(_, _, _)
digitPrefix(chars, count, value) ==
  IF chars = <<>> THEN [count |-> count, value |-> value]
  ELSE IF isDigit(Head(chars))
    THEN digitPrefix(Tail(chars), count + 1, value * 10 + digitValue(Head(chars)))
  ELSE [count |-> count, value |-> value]

parseIntChars(chars) ==
  LET s == skipSpace(chars)
      sign == IF s = <<>> THEN "" ELSE IF Head(s) \in {"+", "-"} THEN Head(s) ELSE ""
      body == IF sign = "" THEN s ELSE Tail(s)
      d == digitPrefix(body, 0, 0)
  IN IF d.count = 0 THEN NaN
     ELSE IF sign = "-" THEN Num(0 - d.value)
     ELSE Num(d.value)

parseInt(rank) == parseIntChars(RankChars(rank))

toDealerUpValue(rank) ==
  IF rank = "A" THEN Num(11)
  ELSE IF isTenValue(rank) THEN Num(10)
  ELSE parseInt(rank)

(***************************************************************************)
(* Hand evaluation.                                                        *)
(***************************************************************************)
RECURSIVE cardLoop(_, _, _, _)
cardLoop(ranks, i, total, aces) ==
  IF i > Len(ranks) THEN [total |-> total, aces |-> aces]
  ELSE IF ranks[i] = "A" THEN cardLoop(ranks, i + 1, plus(total, Num(11)), aces + 1)
  ELSE IF isTenValue(ranks[i]) THEN cardLoop(ranks, i + 1, plus(total, Num(10)), aces)
  ELSE cardLoop(ranks, i + 1, plus(total, parseInt(ranks[i])), aces)

RECURSIVE demoteLoop(_, _)
demoteLoop(total, aces) ==
  IF greater(total, Num(21)) /\ aces > 0 THEN demoteLoop(plus(total, Num(-10)), aces - 1)
  ELSE [total |-> total, aces |-> aces]

\* The softness test of line 54, on the ace count of the hand and the value the
\* loop variable aces is left with.
softTest(aceCount, total, aces) ==
  aceCount > 0 /\ atMost(total, Num(21)) /\ aceCount > aces

bestTotal(ranks) ==
  LET s == cardLoop(ranks, 1, Num(0), 0)
      d == demoteLoop(s.total, s.aces)
      aceCount == Cardinality({i \in DOMAIN ranks : ranks[i] = "A"})
  IN [total |-> d.total, isSoft |-> softTest(aceCount, d.total, d.aces)]

isPair(hand) ==
  IF Len(hand) # 2 THEN FALSE
  ELSE IF isTenValue(hand[1]) /\ isTenValue(hand[2]) THEN TRUE
  ELSE hand[1] = hand[2]

pairKey(hand) ==
  IF isTenValue(hand[1]) /\ isTenValue(hand[2]) THEN "10" ELSE hand[1]

(***************************************************************************)
(* Baseline strategy: multi-deck, S17, DAS, late surrender.  Each rule     *)
(* yields an action, or "none" when control falls through to the next one. *)
(***************************************************************************)
surrenderRule(hand, total, isSoft, up, opts) ==
  IF opts.canSurrender /\ Len(hand) = 2
  THEN IF ~isSoft /\ total = 16 /\ (up = 9 \/ up = 10 \/ up = 11) THEN "Surrender"
       ELSE IF ~isSoft /\ total = 15 /\ up = 10 THEN "Surrender"
       ELSE "none"
  ELSE "none"

splitNinesWide(up) == up >= 2 /\ up <= 9

splitNines(up) == up \in {2, 3, 4, 5, 6, 8, 9}

pairRule(hand, up, opts) ==
  IF opts.canSplit /\ isPair(hand)
  THEN LET pk == pairKey(hand)
       IN IF pk = "A" THEN "Split"
          ELSE IF pk = "10" THEN "Stand"
          ELSE IF pk = "9" THEN (IF splitNines(up) THEN "Split" ELSE "Stand")
          ELSE IF pk = "8" THEN "Split"
          ELSE IF pk = "7" THEN (IF up >= 2 /\ up <= 7 THEN "Split" ELSE "Hit")
          ELSE IF pk = "6" THEN (IF up >= 2 /\ up <= 6 THEN "Split" ELSE "Hit")
          ELSE IF pk = "5" THEN (IF opts.canDouble /\ up >= 2 /\ up <= 9 THEN "Double" ELSE "Hit")
          ELSE IF pk = "4" THEN (IF up = 5 \/ up = 6 THEN "Split" ELSE "Hit")
          ELSE IF pk = "3" \/ pk = "2" THEN (IF up >= 2 /\ up <= 7 THEN "Split" ELSE "Hit")
          ELSE "none"
  ELSE "none"

softRule(total, up, opts) ==
  IF total >= 20 THEN "Stand"
  ELSE IF total = 19 THEN (IF opts.canDouble /\ up = 6 THEN "Double" ELSE "Stand")
  ELSE IF total = 18
    THEN (IF opts.canDouble /\ up >= 3 /\ up <= 6 THEN "Double"
          ELSE IF up = 2 \/ up = 7 \/ up = 8 THEN "Stand"
          ELSE "Hit")
  ELSE IF total = 17 THEN (IF opts.canDouble /\ up >= 3 /\ up <= 6 THEN "Double" ELSE "Hit")
  ELSE IF total = 16 \/ total = 15
    THEN (IF opts.canDouble /\ up >= 4 /\ up <= 6 THEN "Double" ELSE "Hit")
  ELSE IF total = 14 \/ total = 13
    THEN (IF opts.canDouble /\ (up = 5 \/ up = 6) THEN "Double" ELSE "Hit")
  ELSE "Hit"

hardRule(total, up, opts) ==
  IF total >= 17 THEN "Stand"
  ELSE IF total <= 8 THEN "Hit"
  ELSE IF total = 9 THEN (IF opts.canDouble /\ up >= 3 /\ up <= 6 THEN "Double" ELSE "Hit")
  ELSE IF total = 10 THEN (IF opts.canDouble /\ up >= 2 /\ up <= 9 THEN "Double" ELSE "Hit")
  ELSE IF total = 11
    THEN (IF opts.canDouble /\ up >= 2 /\ up <= 10 THEN "Double"
          ELSE IF up = 11 THEN "Hit" ELSE "Double")
  ELSE IF total = 12 THEN (IF up >= 4 /\ up <= 6 THEN "Stand" ELSE "Hit")
  ELSE IF total >= 13 /\ total <= 16 THEN (IF up >= 2 /\ up <= 6 THEN "Stand" ELSE "Hit")
  ELSE "Hit"

baselineAction(hand, dealerUpRank, opts) ==
  LET up == intOf(toDealerUpValue(dealerUpRank))
      bt == bestTotal(hand)
      total == intOf(bt.total)
      sur == surrenderRule(hand, total, bt.isSoft, up, opts)
      pr == pairRule(hand, up, opts)
  IN IF sur # "none" THEN sur
     ELSE IF pr # "none" THEN pr
     ELSE IF bt.isSoft THEN softRule(total, up, opts)
     ELSE hardRule(total, up, opts)

(***************************************************************************)
(* Key deviations (Hi-Lo true count).  The notes are the source's strings  *)
(* with the arrow and the comparison sign spelled in ASCII.                *)
(***************************************************************************)
deviation(action, note) == [action |-> action, notes |-> <<note>>]

applyDeviations(base, hand, dealerUpRank, tcount, opts) ==
  LET up == intOf(toDealerUpValue(dealerUpRank))
      bt == bestTotal(hand)
      total == intOf(bt.total)
      isSoft == bt.isSoft
  IN IF ~isSoft /\ total = 16 /\ up = 10 /\ tcount >= 0 /\ base # "Stand"
       THEN deviation("Stand", "Deviation: 16 vs 10 -> Stand at TC >= 0")
     ELSE IF ~isSoft /\ total = 15 /\ up = 10 /\ tcount >= 4 /\ base # "Stand"
       THEN deviation("Stand", "Deviation: 15 vs 10 -> Stand at TC >= +4")
     ELSE IF ~isSoft /\ total = 16 /\ up = 9 /\ tcount >= 5 /\ base # "Stand"
       THEN deviation("Stand", "Deviation: 16 vs 9 -> Stand at TC >= +5")
     ELSE IF ~isSoft /\ total = 16 /\ up = 11 /\ tcount >= 3 /\ base # "Stand"
       THEN deviation("Stand", "Deviation: 16 vs A -> Stand at TC >= +3")
     ELSE IF ~isSoft /\ total = 12 /\ up = 3 /\ tcount >= 1 /\ base # "Stand"
       THEN deviation("Stand", "Deviation: 12 vs 3 -> Stand at TC >= +1")
     ELSE IF ~isSoft /\ total = 12 /\ up = 2 /\ tcount >= 3 /\ base # "Stand"
       THEN deviation("Stand", "Deviation: 12 vs 2 -> Stand at TC >= +3")
     ELSE IF opts.canDouble /\ ~isSoft /\ total = 10 /\ up = 10 /\ tcount >= 4 /\ base # "Double"
       THEN deviation("Double", "Deviation: 10 vs 10 -> Double at TC >= +4")
     ELSE IF opts.canDouble /\ ~isSoft /\ total = 10 /\ up = 11 /\ tcount >= 3 /\ base # "Double"
       THEN deviation("Double", "Deviation: 10 vs A -> Double at TC >= +3")
     ELSE IF opts.canDouble /\ ~isSoft /\ total = 11 /\ up = 11 /\ tcount >= 0 /\ base # "Double"
       THEN deviation("Double", "Deviation: 11 vs A -> Double at TC >= 0")
     ELSE [action |-> base, notes |-> <<>>]

(***************************************************************************)
(* JavaScript numbers.  The counts are small integers, held exactly; the   *)
(* two quotients of the estimator are IEEE-754 binary64 values.  A double  *)
(* is [sign, hi, lo, e]: sign in {-1, 0, 1} and, when sign # 0, the value  *)
(* sign * (hi * 2^27 + lo) * 2^(e - 52) with a 53-bit significand          *)
(* 2^52 <= hi * 2^27 + lo < 2^53.                                          *)
(***************************************************************************)
Limb == 2^27

TopLimb == 2^25

FZero == [sign |-> 0, hi |-> 0, lo |-> 0, e |-> 0]

RECURSIVE log2Floor(_)
log2Floor(n) == IF n < 2 THEN 0 ELSE 1 + log2Floor(n \div 2)

\* An integer of magnitude below 2^26 as a double (exact).
fromInt(n) ==
  IF n = 0 THEN FZero
  ELSE LET a == IF n < 0 THEN 0 - n ELSE n
           e == log2Floor(a)
       IN [sign |-> IF n < 0 THEN -1 ELSE 1, hi |-> a * 2^(25 - e), lo |-> 0, e |-> e]

FQuarter == [sign |-> 1, hi |-> TopLimb, lo |-> 0, e |-> -2]

\* Significands as limb pairs: comparison, doubling, subtraction.
pairGe(ahi, alo, bhi, blo) == ahi > bhi \/ (ahi = bhi /\ alo >= blo)

pairDouble(ahi, alo) == [hi |-> 2 * ahi + (2 * alo) \div Limb, lo |-> (2 * alo) % Limb]

pairSub(ahi, alo, bhi, blo) ==
  IF alo >= blo THEN [hi |-> ahi - bhi, lo |-> alo - blo]
  ELSE [hi |-> ahi - bhi - 1, lo |-> alo + Limb - blo]

\* One step of binary long division: the remainder doubled, the next quotient bit.
divStep(rhi, rlo, dhi, dlo) ==
  LET r2 == pairDouble(rhi, rlo)
      bit == IF pairGe(r2.hi, r2.lo, dhi, dlo) THEN 1 ELSE 0
      r == IF bit = 1 THEN pairSub(r2.hi, r2.lo, dhi, dlo) ELSE r2
  IN [bit |-> bit, hi |-> r.hi, lo |-> r.lo]

\* k more quotient bits by long division: st holds the remainder (rhi, rlo) and
\* the quotient so far (qhi, qlo).
RECURSIVE divLoop(_, _, _, _)
divLoop(st, dhi, dlo, k) ==
  IF k = 0 THEN st
  ELSE LET b == divStep(st.rhi, st.rlo, dhi, dlo)
           q2 == pairDouble(st.qhi, st.qlo)
           next == [rhi |-> b.hi, rlo |-> b.lo, qhi |-> q2.hi, qlo |-> q2.lo + b.bit]
       IN IF next.rhi >= 0 THEN divLoop(next, dhi, dlo, k - 1) ELSE next

\* x / y for y # 0: the quotient rounded to the nearest double, ties to even.
fdiv(x, y) ==
  IF x.sign = 0 THEN FZero
  ELSE LET big == pairGe(x.hi, x.lo, y.hi, y.lo)
           n == IF big THEN [hi |-> x.hi, lo |-> x.lo] ELSE pairDouble(x.hi, x.lo)
           e0 == IF big THEN x.e - y.e ELSE x.e - y.e - 1
           r0 == pairSub(n.hi, n.lo, y.hi, y.lo)
           d == divLoop([rhi |-> r0.hi, rlo |-> r0.lo, qhi |-> 0, qlo |-> 1], y.hi, y.lo, 52)
           rnd == divStep(d.rhi, d.rlo, y.hi, y.lo)
           sticky == rnd.hi # 0 \/ rnd.lo # 0
           up == rnd.bit = 1 /\ (sticky \/ d.qlo % 2 = 1)
           qlo1 == IF up THEN d.qlo + 1 ELSE d.qlo
           qhi1 == IF qlo1 = Limb THEN d.qhi + 1 ELSE d.qhi
           qlo2 == IF qlo1 = Limb THEN 0 ELSE qlo1
           over == qhi1 = 2 * TopLimb
       IN [sign |-> x.sign * y.sign,
           hi |-> IF over THEN TopLimb ELSE qhi1,
           lo |-> qlo2,
           e |-> IF over THEN e0 + 1 ELSE e0]

\* x < y.
flt(x, y) ==
  LET magLt(a, b) == a.e < b.e \/ (a.e = b.e /\ ~pairGe(a.hi, a.lo, b.hi, b.lo))
  IN IF x.sign # y.sign THEN x.sign < y.sign
     ELSE IF x.sign = 0 THEN FALSE
     ELSE IF x.sign = 1 THEN magLt(x, y)
     ELSE magLt(y, x)

mathMin(a, b) == IF flt(b, a) THEN b ELSE a

mathMax(a, b) == IF flt(a, b) THEN b ELSE a

\* The integer part of the magnitude of x, and whether x has a fraction.
magFloor(x) ==
  IF x.sign = 0 \/ x.e < 0 THEN 0
  ELSE IF x.e <= 25 THEN x.hi \div 2^(25 - x.e)
  ELSE x.hi * 2^(x.e - 25) + x.lo \div 2^(52 - x.e)

hasFraction(x) ==
  IF x.sign = 0 THEN FALSE
  ELSE IF x.e < 0 THEN TRUE
  ELSE IF x.e <= 25 THEN x.hi % 2^(25 - x.e) # 0 \/ x.lo # 0
  ELSE x.lo % 2^(52 - x.e) # 0

mathFloor(x) ==
  IF x.sign >= 0 THEN magFloor(x)
  ELSE 0 - (magFloor(x) + (IF hasFraction(x) THEN 1 ELSE 0))

mathCeil(x) ==
  IF x.sign <= 0 THEN 0 - magFloor(x)
  ELSE magFloor(x) + (IF hasFraction(x) THEN 1 ELSE 0)

clamp(n, lo, hi) == mathMax(lo, mathMin(hi, n))

(***************************************************************************)
(* The count estimator: the values App derives from decks and seen.        *)
(***************************************************************************)
totalCardsOf(d) == d * 52

RECURSIVE sumHiLo(_, _, _)
sumHiLo(cards, i, s) ==
  IF i > Len(cards) THEN s ELSE sumHiLo(cards, i + 1, s + hiLoValue(cards[i]))

runningCountOf(cards) == sumHiLo(cards, 1, 0)

decksRemainingOf(d, seenLength) ==
  LET remainingCards == totalCardsOf(d) - seenLength
      est == fdiv(fromInt(remainingCards), fromInt(52))
  IN clamp(est, FQuarter, fromInt(d))

truncQuotient(tcq) == IF tcq.sign < 0 THEN mathCeil(tcq) ELSE mathFloor(tcq)

trueCountOf(rc, dr) == truncQuotient(fdiv(fromInt(rc), dr))

(***************************************************************************)
(* The harness of the pure functions: call holds the arguments, ret the    *)
(* returned value, pc whether the function has been applied.               *)
(***************************************************************************)
Hands(n) == UNION {[1..k -> RankSet] : k \in 0..n}

Flags == [canSplit : BOOLEAN, canDouble : BOOLEAN, canSurrender : BOOLEAN]

NoOpts == [canSplit |-> FALSE, canDouble |-> FALSE, canSurrender |-> FALSE]

NoCall == [fn |-> "none", rank |-> "10", hand |-> <<>>, dealerUp |-> "10",
           opts |-> NoOpts, tc |-> 0, base |-> "none"]

\* outcome is how the call ended: "number" or "NaN" for a returned number,
\* "value" for another returned value, and the name of the error for a throw.
NoRet == [outcome |-> "none", total |-> 0, isSoft |-> FALSE, action |-> "none",
          notes |-> <<>>]

\* The outcome of returning the number x.
returned(x) == IF x.nan THEN "NaN" ELSE "number"

AppInit ==
  /\ stage = "setup"
  /\ players = 4
  /\ decks = 2
  /\ dealerUp = "10"
  /\ seen = <<>>
  /\ myHand = <<>>

InitEval ==
  /\ AppInit
  /\ pc = "ready"
  /\ \E h \in Hands(MaxEvalHand) :
       call = [NoCall EXCEPT !.fn = "bestTotal", !.hand = h]
  /\ ret = NoRet

ApplyBestTotal ==
  /\ pc = "ready"
  /\ call.fn = "bestTotal"
  /\ pc' = "done"
  /\ LET r == bestTotal(call.hand)
     IN ret' = [NoRet EXCEPT !.outcome = returned(r.total), !.total = r.total.n,
                             !.isSoft = r.isSoft]
  /\ UNCHANGED <<call, appVars>>

NextEval == ApplyBestTotal

SpecEval == InitEval /\ [][NextEval]_vars

InitBaseline ==
  /\ AppInit
  /\ pc = "ready"
  /\ \E h \in Hands(MaxHand), u \in RankSet, o \in Flags :
       call = [NoCall EXCEPT !.fn = "baselineAction", !.hand = h, !.dealerUp = u, !.opts = o]
  /\ ret = NoRet

ApplyBaselineAction ==
  /\ pc = "ready"
  /\ call.fn = "baselineAction"
  /\ pc' = "done"
  /\ ret' = [NoRet EXCEPT !.outcome = "value",
                          !.action = baselineAction(call.hand, call.dealerUp, call.opts)]
  /\ UNCHANGED <<call, appVars>>

NextBaseline == ApplyBaselineAction

SpecBaseline == InitBaseline /\ [][NextBaseline]_vars

\* App passes { canDouble, canSurrender } to applyDeviations; canSplit rides along
\* as the flag the baseline was computed with (always true in App).
DevFlags == {o \in Flags : o.canSplit}

InitDeviation ==
  /\ AppInit
  /\ pc = "ready"
  /\ \E h \in Hands(MaxDevHand), u \in RankSet, o \in DevFlags,
        t \in (0 - TCBelow)..MaxTC, b \in Actions :
       call = [NoCall EXCEPT !.fn = "applyDeviations", !.hand = h, !.dealerUp = u,
                             !.opts = o, !.tc = t, !.base = b]
  /\ ret = NoRet

ApplyDeviations ==
  /\ pc = "ready"
  /\ call.fn = "applyDeviations"
  /\ pc' = "done"
  /\ LET r == applyDeviations(call.base, call.hand, call.dealerUp, call.tc, call.opts)
     IN ret' = [NoRet EXCEPT !.outcome = "value", !.action = r.action, !.notes = r.notes]
  /\ UNCHANGED <<call, appVars>>

NextDeviation == ApplyDeviations

SpecDeviation == InitDeviation /\ [][NextDeviation]_vars

\* The rank utilities on any string: hiLoValue and toDealerUpValue on one string,
\* bestTotal on a list of strings.
RawHands(n) == UNION {[1..k -> RawRanks] : k \in 0..n}

InitRank ==
  /\ AppInit
  /\ pc = "ready"
  /\ \/ \E r \in RawRanks : call = [NoCall EXCEPT !.fn = "hiLoValue", !.rank = r]
     \/ \E r \in RawRanks : call = [NoCall EXCEPT !.fn = "toDealerUpValue", !.rank = r]
     \/ \E h \in RawHands(MaxRankHand) : call = [NoCall EXCEPT !.fn = "bestTotal", !.hand = h]
  /\ ret = NoRet

ApplyHiLoValue ==
  /\ pc = "ready"
  /\ call.fn = "hiLoValue"
  /\ pc' = "done"
  /\ ret' = [NoRet EXCEPT !.outcome = "number", !.total = hiLoValue(call.rank)]
  /\ UNCHANGED <<call, appVars>>

ApplyToDealerUpValue ==
  /\ pc = "ready"
  /\ call.fn = "toDealerUpValue"
  /\ pc' = "done"
  /\ LET r == toDealerUpValue(call.rank)
     IN ret' = [NoRet EXCEPT !.outcome = returned(r), !.total = r.n]
  /\ UNCHANGED <<call, appVars>>

NextRank == ApplyHiLoValue \/ ApplyToDealerUpValue \/ ApplyBestTotal

SpecRank == InitRank /\ [][NextRank]_vars

(***************************************************************************)
(* The App component: the values it derives on every render, and its       *)
(* handlers.  The pure-function harness is idle throughout.                *)
(***************************************************************************)
totalCards == totalCardsOf(decks)

runningCount == runningCountOf(seen)

decksRemaining == decksRemainingOf(decks, Len(seen))

trueCount == trueCountOf(runningCount, decksRemaining)

baseline ==
  baselineAction(myHand, dealerUp,
                 [canSplit |-> TRUE, canDouble |-> Len(myHand) = 2,
                  canSurrender |-> Len(myHand) = 2])

recommendation ==
  LET canDouble == Len(myHand) = 2
      canSurrender == Len(myHand) = 2
      applied == applyDeviations(baseline, myHand, dealerUp, trueCount,
                                 [canSplit |-> TRUE, canDouble |-> canDouble,
                                  canSurrender |-> canSurrender])
      insurance == IF dealerUp = "A"
                   THEN (IF trueCount >= 3 THEN "Buy (TC >= +3)" ELSE "Do not buy")
                   ELSE "N/A"
  IN [base |-> baseline, final |-> applied.action, notes |-> applied.notes,
      insurance |-> insurance]

setupValid == players >= 1 /\ players <= 7 /\ decks >= 1 /\ decks <= 8

\* cards.slice(0, -1)
dropLast(cards) == SubSeq(cards, 1, Len(cards) - 1)

SetPlayers(p) ==
  /\ stage = "setup"
  /\ players' = p
  /\ UNCHANGED <<stage, decks, dealerUp, seen, myHand, callVars>>

SetDecks(d) ==
  /\ stage = "setup"
  /\ decks' = d
  /\ UNCHANGED <<stage, players, dealerUp, seen, myHand, callVars>>

Start ==
  /\ stage = "setup"
  /\ setupValid
  /\ seen' = <<>>
  /\ myHand' = <<>>
  /\ dealerUp' = "10"
  /\ stage' = "play"
  /\ UNCHANGED <<players, decks, callVars>>

ResetPlay ==
  /\ stage = "play"
  /\ seen' = <<>>
  /\ myHand' = <<>>
  /\ dealerUp' = "10"
  /\ UNCHANGED <<stage, players, decks, callVars>>

BackToSetup ==
  /\ stage = "play"
  /\ stage' = "setup"
  /\ UNCHANGED <<players, decks, dealerUp, seen, myHand, callVars>>

SetDealerUp(r) ==
  /\ stage = "play"
  /\ dealerUp' = r
  /\ UNCHANGED <<stage, players, decks, seen, myHand, callVars>>

AddSeen(r) ==
  /\ stage = "play"
  /\ seen' = Append(seen, r)
  /\ UNCHANGED <<stage, players, decks, dealerUp, myHand, callVars>>

AddMy(r) ==
  /\ stage = "play"
  /\ myHand' = Append(myHand, r)
  /\ seen' = Append(seen, r)
  /\ UNCHANGED <<stage, players, decks, dealerUp, callVars>>

UndoSeen ==
  /\ stage = "play"
  /\ seen' = dropLast(seen)
  /\ UNCHANGED <<stage, players, decks, dealerUp, myHand, callVars>>

UndoMy ==
  /\ stage = "play"
  /\ IF Len(myHand) = 0
     THEN UNCHANGED <<myHand, seen>>
     ELSE /\ seen' = dropLast(seen)
          /\ myHand' = dropLast(myHand)
  /\ UNCHANGED <<stage, players, decks, dealerUp, callVars>>

ClearSeen ==
  /\ stage = "play"
  /\ seen' = <<>>
  /\ UNCHANGED <<stage, players, decks, dealerUp, myHand, callVars>>

ClearHand ==
  /\ stage = "play"
  /\ myHand' = <<>>
  /\ UNCHANGED <<stage, players, decks, dealerUp, seen, callVars>>

Idle == pc = "ui" /\ call = NoCall /\ ret = NoRet

Init == AppInit /\ Idle

\* The table session: any cards of AppRanks in any order, a few at a time.
Next ==
  \/ \E p \in PlayerInputs : SetPlayers(p)
  \/ \E d \in DeckInputs : SetDecks(d)
  \/ Start
  \/ ResetPlay
  \/ BackToSetup
  \/ \E r \in AppRanks : SetDealerUp(r)
  \/ \E r \in AppRanks : Len(seen) < MaxSeen /\ AddSeen(r)
  \/ \E r \in AppRanks : Len(seen) < MaxSeen /\ Len(myHand) < MaxMyHand /\ AddMy(r)
  \/ UndoSeen
  \/ UndoMy
  \/ ClearSeen
  \/ ClearHand

Spec == Init /\ [][Next]_vars

\* The shoe dealt out: two ranks, observed in rank order, up to past the end of
\* the shoe.
inRankOrder(cards, i) ==
  IF cards = <<>> THEN TRUE
  ELSE \A j \in DOMAIN ShoeRanks : ShoeRanks[j] = cards[Len(cards)] => j <= i

NextShoe ==
  \/ \E d \in ShoeDecks : SetDecks(d)
  \/ Start
  \/ ResetPlay
  \/ BackToSetup
  \/ \E i \in DOMAIN ShoeRanks :
       Len(seen) < MaxShoeSeen /\ inRankOrder(seen, i) /\ AddSeen(ShoeRanks[i])
  \/ \E i \in DOMAIN ShoeRanks :
       /\ Len(seen) < MaxShoeSeen
       /\ Len(myHand) < MaxShoeHand
       /\ inRankOrder(seen, i)
       /\ AddMy(ShoeRanks[i])
  \/ UndoSeen
  \/ UndoMy
  \/ ClearSeen
  \/ ClearHand

SpecShoe == Init /\ [][NextShoe]_vars

(***************************************************************************)
(* Blackjack facts the statements below are phrased in, defined from the   *)
(* card values alone: an ace is worth 1, and one ace may be worth 11 when  *)
(* that does not take the hand over 21.                                    *)
(***************************************************************************)
PipValue(rank) ==
  CASE rank = "A" -> 1
    [] rank \in {"10", "J", "Q", "K"} -> 10
    [] rank = "2" -> 2 [] rank = "3" -> 3 [] rank = "4" -> 4 [] rank = "5" -> 5
    [] rank = "6" -> 6 [] rank = "7" -> 7 [] rank = "8" -> 8 [] rank = "9" -> 9

RECURSIVE HardSum(_)
HardSum(hand) == IF hand = <<>> THEN 0 ELSE PipValue(Head(hand)) + HardSum(Tail(hand))

HasAce(hand) == \E i \in DOMAIN hand : hand[i] = "A"

SoftHand(hand) == HasAce(hand) /\ HardSum(hand) + 10 <= 21

HandTotal(hand) == IF SoftHand(hand) THEN HardSum(hand) + 10 ELSE HardSum(hand)

UpValue(rank) == IF rank = "A" THEN 11 ELSE PipValue(rank)

PairHand(hand) ==
  /\ Len(hand) = 2
  /\ \/ hand[1] = hand[2]
     \/ PipValue(hand[1]) = 10 /\ PipValue(hand[2]) = 10

SurrenderCase(hand, up, canSurrender) ==
  /\ canSurrender
  /\ Len(hand) = 2
  /\ ~SoftHand(hand)
  /\ \/ HandTotal(hand) = 16 /\ up \in {9, 10, 11}
     \/ HandTotal(hand) = 15 /\ up = 10

\* The pair table of the strategy, by the value of the paired card (ace = 1).
PairTable(pip, up, canDouble) ==
  CASE pip = 1 -> "Split"
    [] pip = 10 -> "Stand"
    [] pip = 9 -> IF up \in {2, 3, 4, 5, 6, 8, 9} THEN "Split" ELSE "Stand"
    [] pip = 8 -> "Split"
    [] pip = 7 -> IF up \in 2..7 THEN "Split" ELSE "Hit"
    [] pip = 6 -> IF up \in 2..6 THEN "Split" ELSE "Hit"
    [] pip = 5 -> IF canDouble /\ up \in 2..9 THEN "Double" ELSE "Hit"
    [] pip = 4 -> IF up \in {5, 6} THEN "Split" ELSE "Hit"
    [] pip \in {2, 3} -> IF up \in 2..7 THEN "Split" ELSE "Hit"

\* The soft-total table of the strategy.
SoftTable(total, up, canDouble) ==
  CASE total >= 20 -> "Stand"
    [] total = 19 -> IF canDouble /\ up = 6 THEN "Double" ELSE "Stand"
    [] total = 18 -> IF canDouble /\ up \in 3..6 THEN "Double"
                     ELSE IF up \in {2, 7, 8} THEN "Stand" ELSE "Hit"
    [] total = 17 -> IF canDouble /\ up \in 3..6 THEN "Double" ELSE "Hit"
    [] total \in {15, 16} -> IF canDouble /\ up \in 4..6 THEN "Double" ELSE "Hit"
    [] total \in {13, 14} -> IF canDouble /\ up \in 5..6 THEN "Double" ELSE "Hit"
    [] total < 13 -> "Hit"

\* The index plays, in the order they are tried.
IndexPlays ==
  << [total |-> 16, up |-> 10, tc |-> 0, action |-> "Stand",
      note |-> "Deviation: 16 vs 10 -> Stand at TC >= 0"],
     [total |-> 15, up |-> 10, tc |-> 4, action |-> "Stand",
      note |-> "Deviation: 15 vs 10 -> Stand at TC >= +4"],
     [total |-> 16, up |-> 9, tc |-> 5, action |-> "Stand",
      note |-> "Deviation: 16 vs 9 -> Stand at TC >= +5"],
     [total |-> 16, up |-> 11, tc |-> 3, action |-> "Stand",
      note |-> "Deviation: 16 vs A -> Stand at TC >= +3"],
     [total |-> 12, up |-> 3, tc |-> 1, action |-> "Stand",
      note |-> "Deviation: 12 vs 3 -> Stand at TC >= +1"],
     [total |-> 12, up |-> 2, tc |-> 3, action |-> "Stand",
      note |-> "Deviation: 12 vs 2 -> Stand at TC >= +3"],
     [total |-> 10, up |-> 10, tc |-> 4, action |-> "Double",
      note |-> "Deviation: 10 vs 10 -> Double at TC >= +4"],
     [total |-> 10, up |-> 11, tc |-> 3, action |-> "Double",
      note |-> "Deviation: 10 vs A -> Double at TC >= +3"],
     [total |-> 11, up |-> 11, tc |-> 0, action |-> "Double",
      note |-> "Deviation: 11 vs A -> Double at TC >= 0"] >>

PlayFires(i, base, hand, up, tcount, canDouble) ==
  /\ ~SoftHand(hand)
  /\ HandTotal(hand) = IndexPlays[i].total
  /\ up = IndexPlays[i].up
  /\ tcount >= IndexPlays[i].tc
  /\ IndexPlays[i].action = "Double" => canDouble
  /\ IndexPlays[i].action # base

DoneWith(fn) == pc = "done" /\ call.fn = fn

(***************************************************************************)
(* C1.  For every hand, bestTotal returns isSoft = true exactly when the   *)
(* final total is at most 21 and at least one ace of the hand still counts *)
(* as 11 (the total is 10 above the sum with every ace worth 1).           *)
(***************************************************************************)
C1_SoftIffAceCountsEleven ==
  DoneWith("bestTotal") =>
    (ret.isSoft <=> (ret.total <= 21 /\ (ret.total - HardSum(call.hand)) \div 10 > 0))

(***************************************************************************)
(* C2.  With canDouble false baselineAction never returns Double, whatever *)
(* the hand, the dealer upcard and the other two flags.                    *)
(***************************************************************************)
C2_NoDoubleWithoutCanDouble ==
  DoneWith("baselineAction") /\ ~call.opts.canDouble => ret.action # "Double"

(***************************************************************************)
(* C3.  A soft hand, and a pair whose baseline action is the pair rule's,  *)
(* never deviates: applyDeviations returns the baseline action and no note *)
(* at every true count and against every dealer upcard.                    *)
(***************************************************************************)
C3_SoftAndPairsNeverDeviate ==
  DoneWith("applyDeviations") =>
    LET up == UpValue(call.dealerUp)
        byPairRule ==
          /\ PairHand(call.hand)
          /\ ~SurrenderCase(call.hand, up, call.opts.canSurrender)
          /\ call.base = PairTable(PipValue(call.hand[1]), up, call.opts.canDouble)
    IN SoftHand(call.hand) \/ byPairRule =>
         ret.action = call.base /\ ret.notes = <<>>

(***************************************************************************)
(* C4.  In the play stage every card of the player's hand is among the     *)
(* seen cards: no rank occurs more often in the hand than in seen.         *)
(***************************************************************************)
Occurrences(cards, r) == Cardinality({i \in DOMAIN cards : cards[i] = r})

C4_HandCardsAreSeen ==
  stage = "play" => \A r \in RankSet : Occurrences(myHand, r) <= Occurrences(seen, r)

(***************************************************************************)
(* C5.  baselineAction returns Surrender exactly when canSurrender holds,  *)
(* the hand has two cards and is hard, and it is 16 against a dealer 9,    *)
(* ten or ace, or 15 against a dealer ten; pairs included, and never for a *)
(* two-card hand holding an ace.                                           *)
(***************************************************************************)
C5_SurrenderExactly ==
  DoneWith("baselineAction") =>
    /\ ret.action = "Surrender" <=>
         SurrenderCase(call.hand, UpValue(call.dealerUp), call.opts.canSurrender)
    /\ Len(call.hand) = 2 /\ HasAce(call.hand) => ret.action # "Surrender"

(***************************************************************************)
(* C6.  A soft hand that the surrender and the pair rule leave undecided   *)
(* gets the action of the soft-total table.                                *)
(***************************************************************************)
C6_SoftTotalsFollowTable ==
  DoneWith("baselineAction") =>
    LET up == UpValue(call.dealerUp)
    IN /\ SoftHand(call.hand)
       /\ ~SurrenderCase(call.hand, up, call.opts.canSurrender)
       /\ ~(call.opts.canSplit /\ PairHand(call.hand))
       => ret.action = SoftTable(HandTotal(call.hand), up, call.opts.canDouble)

(***************************************************************************)
(* C7.  A two-card pair with canSplit true and no surrender case gets the  *)
(* action of the pair table, before any soft or hard total rule; and Split *)
(* is returned only for a pair with canSplit true.                         *)
(***************************************************************************)
C7_PairsFollowTable ==
  DoneWith("baselineAction") =>
    LET up == UpValue(call.dealerUp)
    IN /\ /\ PairHand(call.hand)
          /\ call.opts.canSplit
          /\ ~SurrenderCase(call.hand, up, call.opts.canSurrender)
          => ret.action = PairTable(PipValue(call.hand[1]), up, call.opts.canDouble)
       /\ ret.action = "Split" => call.opts.canSplit /\ PairHand(call.hand)

\* A pair of nines against a dealer 7, split allowed: the pair rule stands, where
\* the neighbouring upcards 6 and 8 split.
C7_Witness ==
  /\ DoneWith("baselineAction")
  /\ call.opts.canSplit
  /\ call.hand = <<"9", "9">>
  /\ call.dealerUp = "7"
  /\ ret.action = "Stand"

(***************************************************************************)
(* C8.  applyDeviations returns the override of the first index play that  *)
(* matches the hard total, the upcard and the threshold and differs from   *)
(* the baseline, with one note naming it; when none fires, the baseline    *)
(* and no note.                                                            *)
(***************************************************************************)
C8_FirstIndexPlayWins ==
  DoneWith("applyDeviations") =>
    LET up == UpValue(call.dealerUp)
        firing == {i \in DOMAIN IndexPlays :
                     PlayFires(i, call.base, call.hand, up, call.tc, call.opts.canDouble)}
    IN /\ firing = {} => ret.action = call.base /\ ret.notes = <<>>
       /\ firing # {} =>
            LET first == CHOOSE i \in firing : \A j \in firing : i <= j
            IN ret.action = IndexPlays[first].action /\ ret.notes = <<IndexPlays[first].note>>
       /\ ret.notes # <<>> <=> ret.action # call.base

(***************************************************************************)
(* C9.  With no more cards seen than the shoe holds, the estimator never   *)
(* divides by zero: decksRemaining lies in [0.25, decks], is 0.25 once the *)
(* shoe is exhausted, and trueCount is the quotient of runningCount by     *)
(* clamp((decks * 52 - len(seen)) / 52, 0.25, decks) truncated toward 0.   *)
(***************************************************************************)
\* The remaining decks of the statement, in 52nds of a deck.
RemainingUnits ==
  LET u == decks * 52 - Len(seen)
  IN IF u < 13 THEN 13 ELSE IF u > decks * 52 THEN decks * 52 ELSE u

TruncToZero(num, den) ==
  IF num < 0 THEN 0 - ((0 - num) \div den) ELSE num \div den

C9_TrueCountTruncatesQuotient ==
  stage = "play" /\ Len(seen) <= decks * 52 =>
    /\ decksRemaining.sign = 1
    /\ ~flt(decksRemaining, FQuarter)
    /\ ~flt(fromInt(decks), decksRemaining)
    /\ Len(seen) = decks * 52 => decksRemaining = FQuarter
    /\ trueCount = TruncToZero(runningCount * 52, RemainingUnits)

(***************************************************************************)
(* C10.  In the play stage the seen cards never outnumber the shoe:        *)
(* len(seen) <= decks * 52.                                                *)
(***************************************************************************)
C10_SeenWithinShoe == stage = "play" => Len(seen) <= decks * 52

(***************************************************************************)
(* C11.  A rank utility (hiLoValue, toDealerUpValue, bestTotal) given a    *)
(* string outside the 13-rank alphabet ends with an InvalidRankError: it   *)
(* returns neither a counting weight nor a number.                         *)
(***************************************************************************)
RankArguments ==
  IF call.fn = "bestTotal" THEN {call.hand[i] : i \in DOMAIN call.hand} ELSE {call.rank}

RankUtilityDone == pc = "done" /\ call.fn \in {"hiLoValue", "toDealerUpValue", "bestTotal"}

C11_ForeignRankIsAnError ==
  RankUtilityDone /\ RankArguments \ RankSet # {} => ret.outcome = "InvalidRankError"

(***************************************************************************)
(* C12.  Every undoMy step with a non-empty hand removes the last card of  *)
(* the hand and one occurrence of that card's rank from seen, so that the  *)
(* running count changes by minus the card's Hi-Lo weight, whatever addSeen *)
(* steps came after the card's addMy; with an empty hand it leaves the     *)
(* hand and seen as they are.                                              *)
(***************************************************************************)
UndoMyTakesBack(card) ==
  /\ myHand' = dropLast(myHand)
  /\ \A r \in RankSet :
       Occurrences(seen', r) = Occurrences(seen, r) - (IF r = card THEN 1 ELSE 0)
  /\ runningCountOf(seen') = runningCount - hiLoValue(card)

C12_UndoMyTakesBackItsCard ==
  [][UndoMy =>
       IF Len(myHand) = 0 THEN UNCHANGED <<myHand, seen>>
       ELSE UndoMyTakesBack(myHand[Len(myHand)])]_vars

====
